---- MODULE Spec2Model ----
(***************************************************************************)
(* A model of the systemsolutions facade library: the reachability probe   *)
(* (NetworkManager.ping), the route discovery (NetworkManager.traceroute)  *)
(* and the error policy of the manager classes' public methods.            *)
(*                                                                         *)
(* Text is modelled as a sequence of lines, a line as a sequence of        *)
(* lexemes.  A lexeme is a record [k, v]: k is the literal text of a word  *)
(* or marker ("bytes=", "time=", "ms", " ", ...), or "int" / "flt" for a   *)
(* number, whose value is v.  Times are kept in tenths of a millisecond so *)
(* that the one-decimal floats of the POSIX dialect are exact integers.    *)
(* An optional value (Python None) is the empty tuple, a present value v   *)
(* the tuple <<v>>.  The loss percentage is kept as the exact fraction      *)
(* [num, den]; an average is computed in binary floating point as Python   *)
(* computes it, because its rounding decides where it lies between the     *)
(* least and the greatest sample.                                          *)
(***************************************************************************)
EXTENDS Integers, Sequences, FiniteSets, TLC

(***************************************************************************)
(* Bounds of the model.                                                    *)
(***************************************************************************)
MaxLines == 3

(***************************************************************************)
(* Lexemes.                                                                *)
(***************************************************************************)
W(s) == [k |-> s, v |-> 0]

I(n) == [k |-> "int", v |-> n]

F(n) == [k |-> "flt", v |-> n]

SP == W(" ")

BYTES_EQ == W("bytes=")

TIME_EQ == W("time=")

MS == W("ms")

TIMEOUT == W("timeout")

BYTES_FROM == W("bytes from")

STAR == W("*")

LP == W("(")

RP == W(")")

None == <<>>

Some(x) == <<x>>

Frac(n, d) == [num |-> n, den |-> d]

\* substring test `marker in line` for a marker that is one lexeme
Has(line, marker) == \E i \in 1..Len(line) : line[i].k = marker

RECURSIVE SeqSum(_)
SeqSum(s) == IF s = <<>> THEN 0 ELSE Head(s) + SeqSum(Tail(s))

SeqMin(s) == CHOOSE x \in {s[i] : i \in 1..Len(s)} : \A j \in 1..Len(s) : x <= s[j]

SeqMax(s) == CHOOSE x \in {s[i] : i \in 1..Len(s)} : \A j \in 1..Len(s) : x >= s[j]

\* index of the first lexeme of kind k at or after position i, Len+1 if none
RECURSIVE Find(_, _, _)
Find(line, k, i) ==
    IF i > Len(line) THEN Len(line) + 1
    ELSE IF line[i].k = k THEN i
    ELSE Find(line, k, i + 1)

\* first position at or after i that holds no space
RECURSIVE SkipSp(_, _)
SkipSp(line, i) ==
    IF i <= Len(line) /\ line[i] = SP THEN SkipSp(line, i + 1) ELSE i

\* last position at or before i that holds no space
RECURSIVE SkipSpBack(_, _)
SkipSpBack(line, i) ==
    IF i >= 1 /\ line[i] = SP THEN SkipSpBack(line, i - 1) ELSE i

\* str.strip()
Strip(line) == SubSeq(line, SkipSp(line, 1), SkipSpBack(line, Len(line)))

\* line.split(sep)[1]: the text between the first and the second sep
AfterFirst(line, sep) ==
    LET a == Find(line, sep, 1)
        b == Find(line, sep, a + 1)
    IN  SubSeq(line, a + 1, b - 1)

\* line.split(sep)[0]: the text before the first sep
BeforeFirst(line, sep) == SubSeq(line, 1, Find(line, sep, 1) - 1)

(***************************************************************************)
(* Python floats.  A float is an IEEE 754 binary64 number; the ones of the *)
(* probe are zero or positive.  A positive float is [hi, lo, ex]: its      *)
(* value is (hi * 2^27 + lo) * 2^ex with a significand of exactly 53 bits, *)
(* 2^25 <= hi < 2^26 and 0 <= lo < 2^27.  Zero is FZero.  Every operation  *)
(* rounds its exact result to nearest, ties to even.                       *)
(***************************************************************************)
B25 == 2^25

B26 == 2^26

B27 == 2^27

FZero == [hi |-> 0, lo |-> 0, ex |-> 0]

\* the float one unit in the last place above x
FloatInc(x) ==
    IF x.lo + 1 < B27 THEN [x EXCEPT !.lo = @ + 1]
    ELSE IF x.hi + 1 < B26 THEN [hi |-> x.hi + 1, lo |-> 0, ex |-> x.ex]
    ELSE [hi |-> B25, lo |-> 0, ex |-> x.ex + 1]

\* round to nearest, ties to even: g is the first bit below the significand
\* of x, st tells whether any bit below that one is set
FloatRound(x, g, st) ==
    IF g = 1 /\ (st \/ x.lo % 2 = 1) THEN FloatInc(x) ELSE x

\* the significand of x with the bit b shifted in from the right
ShiftIn(x, b) ==
    [hi |-> 2 * x.hi + (2 * x.lo + b) \div B27, lo |-> (2 * x.lo + b) % B27, ex |-> x.ex - 1]

\* long division by d, a bit at a step, until the quotient x has 53 bits; r
\* is the remainder so far (0 <= r < d, and the quotient is not zero)
RECURSIVE DivBits(_, _, _)
DivBits(x, r, d) ==
    IF x.hi >= B25 THEN FloatRound(x, IF 2 * r >= d THEN 1 ELSE 0, (2 * r) % d # 0)
    ELSE DivBits(ShiftIn(x, IF 2 * r >= d THEN 1 ELSE 0), (2 * r) % d, d)

\* the float nearest to n / d, for integers n >= 0 and d > 0: int / int, and
\* float(text) of a decimal text with value n / d
FromRatio(n, d) ==
    IF n = 0 THEN FZero
    ELSE DivBits([hi |-> 0, lo |-> n \div d, ex |-> 0], n % d, d)

\* float / int for a float x and an integer 0 < n < 16
FloatDivInt(x, n) ==
    IF x = FZero THEN FZero
    ELSE DivBits([hi |-> x.hi \div n, lo |-> ((x.hi % n) * B27 + x.lo) \div n, ex |-> x.ex],
                 ((x.hi % n) * B27 + x.lo) % n, n)

\* a significand in the course of an addition: g is the last bit shifted
\* out, st tells whether a bit shifted out before it was set
Ext(x) == [hi |-> x.hi, lo |-> x.lo, ex |-> x.ex, g |-> 0, st |-> FALSE]

ShiftOut(s) ==
    [hi |-> s.hi \div 2, lo |-> s.lo \div 2 + (s.hi % 2) * B26, ex |-> s.ex + 1,
     g |-> s.lo % 2, st |-> s.st \/ s.g = 1]

\* s shifted right until its exponent is ex
RECURSIVE AlignTo(_, _)
AlignTo(s, ex) ==
    IF s.ex >= ex THEN s
    ELSE IF s.hi = 0 /\ s.lo = 0 /\ s.g = 0 THEN [s EXCEPT !.ex = ex]
    ELSE AlignTo(ShiftOut(s), ex)

\* x + s for s aligned to the exponent of x
AddSum(x, s) ==
    [hi |-> x.hi + s.hi + (x.lo + s.lo) \div B27, lo |-> (x.lo + s.lo) % B27,
     ex |-> x.ex, g |-> s.g, st |-> s.st]

Normal(s) == IF s.hi >= B26 THEN ShiftOut(s) ELSE s

RoundExt(s) == FloatRound([hi |-> s.hi, lo |-> s.lo, ex |-> s.ex], s.g, s.st)

\* float + float
FloatAdd(x, y) ==
    IF x = FZero THEN y
    ELSE IF y = FZero THEN x
    ELSE IF x.ex >= y.ex THEN RoundExt(Normal(AddSum(x, AlignTo(Ext(y), x.ex))))
    ELSE RoundExt(Normal(AddSum(y, AlignTo(Ext(x), y.ex))))

\* x < y
FloatLess(x, y) ==
    IF y = FZero THEN FALSE
    ELSE IF x = FZero THEN TRUE
    ELSE \/ x.ex < y.ex
         \/ x.ex = y.ex /\ x.hi < y.hi
         \/ x.ex = y.ex /\ x.hi = y.hi /\ x.lo < y.lo

FloatLeq(x, y) == x = y \/ FloatLess(x, y)

\* the float a time kept in tenths of a millisecond stands for
TimeValue(t) == FromRatio(t, 10)

\* sum(ts) over floats: 0 + ts[1] + ts[2] + ..., from the left
RECURSIVE FloatSum(_, _)
FloatSum(acc, ts) ==
    IF ts = <<>> THEN acc ELSE FloatSum(FloatAdd(acc, TimeValue(Head(ts))), Tail(ts))

\* sum(ts) / len(ts) over floats
FloatMean(ts) == FloatDivInt(FloatSum(FZero, ts), Len(ts))

\* sum(ts) / len(ts) over ints: the sum is exact, the quotient is rounded
IntMean(ts) == FromRatio(SeqSum(ts), 10 * Len(ts))

(***************************************************************************)
(* Exceptions.  An exception value carries its class and str(e), a text.   *)
(***************************************************************************)
Raise(type, msg) == [type |-> type, msg |-> msg]

\* the classes an exception of the given class is an instance of
Bases(type) ==
    CASE type = "CalledProcessError" -> {"CalledProcessError", "SubprocessError", "Exception"}
      [] type = "FileNotFoundError"  -> {"FileNotFoundError", "OSError", "Exception"}
      [] type = "ValueError"         -> {"ValueError", "Exception"}
      [] type = "NameError"          -> {"NameError", "Exception"}
      [] OTHER                       -> {type}

IsInstance(e, class) == class \in Bases(e.type)

\* str(e) of the NameError line 287 / 374 raises when `os` is not a global
NameErrorOs == Raise("NameError", << <<W("name 'os' is not defined")>> >>)

\* str(e) of the OSError subprocess raises when the binary cannot be started
LaunchError(cmd) ==
    Raise("FileNotFoundError", << <<W("[Errno 2] No such file or directory:"), SP, cmd[1]>> >>)

\* str(e) of CalledProcessError: the command and the status, not the output
CalledProcessError(cmd, rc) ==
    Raise("CalledProcessError",
          << <<W("Command"), SP>> \o cmd \o <<SP, W("returned non-zero exit status"), SP, I(rc)>> >>)

\* int(tok) on the text tok; the value is in tenths of a millisecond
PyInt(tok) ==
    IF Len(tok) = 1 /\ tok[1].k = "int"
    THEN [ok |-> TRUE, val |-> 10 * tok[1].v, exc |-> Raise("", <<>>)]
    ELSE [ok |-> FALSE, val |-> 0,
          exc |-> Raise("ValueError", << <<W("invalid literal for int() with base 10:"), SP>> \o tok >>)]

\* float(tok) on the text tok; the value is in tenths of a millisecond
PyFloat(tok) ==
    IF Len(tok) = 1 /\ tok[1].k \in {"int", "flt"}
    THEN [ok |-> TRUE, val |-> IF tok[1].k = "int" THEN 10 * tok[1].v ELSE tok[1].v,
          exc |-> Raise("", <<>>)]
    ELSE [ok |-> FALSE, val |-> 0,
          exc |-> Raise("ValueError", << <<W("could not convert string to float:"), SP>> \o tok >>)]

(***************************************************************************)
(* NetworkManager.ping                                                     *)
(***************************************************************************)
\* PingCmd that hands the timeout to `-w` in seconds on Windows too
PingCmd_SecondsOnWindows(osname, host, count, timeout) ==
    IF osname = "nt"
    THEN <<W("ping"), W("-n"), I(count), W("-w"), I(timeout), W(host)>>
    ELSE <<W("ping"), W("-c"), I(count), W("-W"), I(timeout), W(host)>>

\* the command list of lines 287-292
PingCmd(osname, host, count, timeout) ==
    IF osname = "nt"
    THEN <<W("ping"), W("-n"), I(count), W("-w"), I(timeout * 1000), W(host)>>
    ELSE <<W("ping"), W("-c"), I(count), W("-W"), I(timeout), W(host)>>

\* the locals of the parse loop; floats tells whether times holds floats
\* (POSIX, float(...)) or ints (Windows, int(...)); raised is set when a
\* line's conversion raises
PingAcc0 ==
    [sent |-> 0, received |-> 0, times |-> <<>>, floats |-> FALSE,
     raised |-> FALSE, exc |-> Raise("", <<>>)]

\* WinPingLine whose outer test is `'bytes=' in line` alone
WinPingLine_SentOnBytes(acc, line) ==
    IF Has(line, "bytes=")
    THEN IF Has(line, "time=") /\ ~Has(line, "timeout")
         THEN LET t == PyInt(Strip(BeforeFirst(AfterFirst(line, "time="), "ms")))
              IN  IF t.ok
                  THEN [acc EXCEPT !.sent = @ + 1, !.received = @ + 1,
                                   !.times = Append(@, t.val)]
                  ELSE [acc EXCEPT !.sent = @ + 1, !.received = @ + 1,
                                   !.raised = TRUE, !.exc = t.exc]
         ELSE [acc EXCEPT !.sent = @ + 1]
    ELSE acc

\* one iteration of the Windows loop, lines 305-310
WinPingLine(acc, line) ==
    IF Has(line, "bytes=") /\ Has(line, "time=")
    THEN IF Has(line, "time=") /\ ~Has(line, "timeout")
         THEN LET t == PyInt(Strip(BeforeFirst(AfterFirst(line, "time="), "ms")))
              IN  IF t.ok
                  THEN [acc EXCEPT !.sent = @ + 1, !.received = @ + 1,
                                   !.times = Append(@, t.val)]
                  ELSE [acc EXCEPT !.sent = @ + 1, !.received = @ + 1,
                                   !.raised = TRUE, !.exc = t.exc]
         ELSE [acc EXCEPT !.sent = @ + 1]
    ELSE acc

\* PosixPingLine with `sent += 1` ahead of the test for `bytes from`
PosixPingLine_CountAll(acc, line) ==
    IF Has(line, "bytes from") /\ Has(line, "time=")
    THEN LET t == PyFloat(BeforeFirst(AfterFirst(line, "time="), " "))
         IN  IF t.ok
             THEN [acc EXCEPT !.sent = @ + 1, !.received = @ + 1,
                              !.times = Append(@, t.val), !.floats = TRUE]
             ELSE [acc EXCEPT !.sent = @ + 1, !.received = @ + 1,
                              !.raised = TRUE, !.exc = t.exc]
    ELSE [acc EXCEPT !.sent = @ + 1]

\* PosixPingLine with times.insert(0, time_ms) in place of times.append
PosixPingLine_Prepend(acc, line) ==
    IF Has(line, "bytes from")
    THEN IF Has(line, "time=")
         THEN LET t == PyFloat(BeforeFirst(AfterFirst(line, "time="), " "))
              IN  IF t.ok
                  THEN [acc EXCEPT !.sent = @ + 1, !.received = @ + 1,
                                   !.times = <<t.val>> \o @, !.floats = TRUE]
                  ELSE [acc EXCEPT !.sent = @ + 1, !.received = @ + 1,
                                   !.raised = TRUE, !.exc = t.exc]
         ELSE [acc EXCEPT !.sent = @ + 1]
    ELSE acc

\* one iteration of the POSIX loop, lines 314-319
PosixPingLine(acc, line) ==
    IF Has(line, "bytes from")
    THEN IF Has(line, "time=")
         THEN LET t == PyFloat(BeforeFirst(AfterFirst(line, "time="), " "))
              IN  IF t.ok
                  THEN [acc EXCEPT !.sent = @ + 1, !.received = @ + 1,
                                   !.times = Append(@, t.val), !.floats = TRUE]
                  ELSE [acc EXCEPT !.sent = @ + 1, !.received = @ + 1,
                                   !.raised = TRUE, !.exc = t.exc]
         ELSE [acc EXCEPT !.sent = @ + 1]
    ELSE acc

PingLine(osname, acc, line) ==
    IF osname = "nt" THEN WinPingLine(acc, line) ELSE PosixPingLine(acc, line)

\* the loop over output.split('\n'); a raise leaves the loop
RECURSIVE PingLoop(_, _, _)
PingLoop(osname, acc, lines) ==
    IF lines = <<>> \/ acc.raised THEN acc
    ELSE PingLoop(osname, PingLine(osname, acc, Head(lines)), Tail(lines))

\* line 328, or the 0 of line 330: sum(times) / len(times)
PingAvg(acc) ==
    IF acc.times = <<>> THEN FZero
    ELSE IF acc.floats THEN FloatMean(acc.times)
    ELSE IntMean(acc.times)

\* PingStats with success taken from sent instead of received
PingStats_SuccessOnSent(host, acc) ==
    LET lost == acc.sent - acc.received
    IN  [host         |-> host,
         sent         |-> acc.sent,
         received     |-> acc.received,
         lost         |-> lost,
         loss_percent |-> IF acc.sent > 0 THEN Frac(lost * 100, acc.sent) ELSE Frac(0, 1),
         min_time     |-> IF acc.times # <<>> THEN SeqMin(acc.times) ELSE 0,
         max_time     |-> IF acc.times # <<>> THEN SeqMax(acc.times) ELSE 0,
         avg_time     |-> PingAvg(acc),
         times        |-> acc.times,
         success      |-> acc.sent > 0]

\* PingStats whose loss is 100 when nothing was sent
PingStats_FullLossOnNoReply(host, acc) ==
    LET lost == acc.sent - acc.received
    IN  [host         |-> host,
         sent         |-> acc.sent,
         received     |-> acc.received,
         lost         |-> lost,
         loss_percent |-> IF acc.sent > 0 THEN Frac(lost * 100, acc.sent) ELSE Frac(100, 1),
         min_time     |-> IF acc.times # <<>> THEN SeqMin(acc.times) ELSE 0,
         max_time     |-> IF acc.times # <<>> THEN SeqMax(acc.times) ELSE 0,
         avg_time     |-> PingAvg(acc),
         times        |-> acc.times,
         success      |-> acc.received > 0]

\* lines 321-343: the statistics and the record returned on the parse path
PingStats(host, acc) ==
    LET lost == acc.sent - acc.received
    IN  [host         |-> host,
         sent         |-> acc.sent,
         received     |-> acc.received,
         lost         |-> lost,
         loss_percent |-> IF acc.sent > 0 THEN Frac(lost * 100, acc.sent) ELSE Frac(0, 1),
         min_time     |-> IF acc.times # <<>> THEN SeqMin(acc.times) ELSE 0,
         max_time     |-> IF acc.times # <<>> THEN SeqMax(acc.times) ELSE 0,
         avg_time     |-> PingAvg(acc),
         times        |-> acc.times,
         success      |-> acc.received > 0]

\* PingExitFailure with the loss of the zero-sent case of line 323
PingExitFailure_ZeroLoss(host, e) ==
    [host         |-> host,
     sent         |-> 0,
     received     |-> 0,
     lost         |-> 0,
     loss_percent |-> Frac(0, 1),
     min_time     |-> 0,
     max_time     |-> 0,
     avg_time     |-> FZero,
     times        |-> <<>>,
     success      |-> FALSE,
     error        |-> e.msg]

\* lines 346-358: the record of the CalledProcessError handler
PingExitFailure(host, e) ==
    [host         |-> host,
     sent         |-> 0,
     received     |-> 0,
     lost         |-> 0,
     loss_percent |-> Frac(100, 1),
     min_time     |-> 0,
     max_time     |-> 0,
     avg_time     |-> FZero,
     times        |-> <<>>,
     success      |-> FALSE,
     error        |-> e.msg]

\* lines 361-365: the record of the catch-all handler
PingError(host, e) == [host |-> host, error |-> e.msg, success |-> FALSE]

\* PingExcept whose second clause is `except OSError` instead of `except Exception`
PingExcept_OnlyOSError(host, e) ==
    IF IsInstance(e, "CalledProcessError")
    THEN [how |-> "return", log |-> <<"Ping failed">>, ret |-> PingExitFailure(host, e)]
    ELSE IF IsInstance(e, "OSError")
    THEN [how |-> "return", log |-> <<"Error pinging">>, ret |-> PingError(host, e)]
    ELSE [how |-> "raise", log |-> <<>>, ret |-> [exception |-> e.type]]

\* the except clauses of ping, lines 344-365, tried in order; an exception
\* that no clause catches leaves the call
PingExcept(host, e) ==
    IF IsInstance(e, "CalledProcessError")
    THEN [how |-> "return", log |-> <<"Ping failed">>, ret |-> PingExitFailure(host, e)]
    ELSE IF IsInstance(e, "Exception")
    THEN [how |-> "return", log |-> <<"Error pinging">>, ret |-> PingError(host, e)]
    ELSE [how |-> "raise", log |-> <<>>, ret |-> [exception |-> e.type]]

\* PingParse whose handler returns the statistics counted before the line
\* that raised, with the error added
PingParse_KeepCounts(osname, host, out) ==
    LET acc == PingLoop(osname, PingAcc0, out)
    IN  IF acc.raised
        THEN [how |-> "return", log |-> PingExcept(host, acc.exc).log,
              ret |-> [host |-> host, error |-> acc.exc.msg, success |-> FALSE,
                       sent |-> acc.sent, received |-> acc.received, times |-> acc.times]]
        ELSE [how |-> "return", log |-> <<>>, ret |-> PingStats(host, acc)]

\* lines 297-343 under the try: parse the captured text and return, or raise
PingParse(osname, host, out) ==
    LET acc == PingLoop(osname, PingAcc0, out)
    IN  IF acc.raised THEN PingExcept(host, acc.exc)
        ELSE [how |-> "return", log |-> <<>>, ret |-> PingStats(host, acc)]

(***************************************************************************)
(* NetworkManager.traceroute                                               *)
(***************************************************************************)
\* the command list of lines 374-379
TraceCmd(osname, host, max_hops, timeout) ==
    IF osname = "nt"
    THEN <<W("tracert"), W("-h"), I(max_hops), W("-w"), I(timeout * 1000), W(host)>>
    ELSE <<W("traceroute"), W("-m"), I(max_hops), W("-w"), I(timeout), W(host)>>

\* end (exclusive) of the longest run of lexemes of the given kinds from i
RECURSIVE RunEnd(_, _, _)
RunEnd(line, kinds, i) ==
    IF i <= Len(line) /\ line[i].k \in kinds THEN RunEnd(line, kinds, i + 1) ELSE i

\* end (exclusive) of the longest run of lexemes not of the given kinds from i
RECURSIVE RunEndNot(_, _, _)
RunEndNot(line, kinds, i) ==
    IF i <= Len(line) /\ line[i].k \notin kinds THEN RunEndNot(line, kinds, i + 1) ELSE i

(***************************************************************************)
(* The regular expressions, matched from the left.  A match state m is     *)
(* [ok, pos, groups]: whether the pattern matched so far, the position of  *)
(* the next lexeme, and the text of the groups captured so far.            *)
(***************************************************************************)
NoMatch == [ok |-> FALSE, pos |-> 0, groups |-> <<>>]

\* `^\s*`
MatchStart(line) == [ok |-> TRUE, pos |-> SkipSp(line, 1), groups |-> <<>>]

\* `(\d+)`
ThenIndex(line, m) ==
    IF m.ok /\ m.pos <= Len(line) /\ line[m.pos].k = "int"
    THEN [ok |-> TRUE, pos |-> m.pos + 1, groups |-> Append(m.groups, <<line[m.pos]>>)]
    ELSE NoMatch

\* `\s+`
ThenSpaces(line, m) ==
    IF m.ok /\ m.pos <= Len(line) /\ line[m.pos] = SP
    THEN [m EXCEPT !.pos = SkipSp(line, m.pos)]
    ELSE NoMatch

\* `\s*`
ThenOptSpaces(line, m) ==
    IF m.ok THEN [m EXCEPT !.pos = SkipSp(line, m.pos)] ELSE NoMatch

\* `\*`
ThenStar(line, m) ==
    IF m.ok /\ m.pos <= Len(line) /\ line[m.pos] = STAR
    THEN [m EXCEPT !.pos = m.pos + 1]
    ELSE NoMatch

\* `ms` at position i, after a group that ran from m.pos to e
ThenMs(line, m, e, i) ==
    IF m.ok /\ e > m.pos /\ i <= Len(line) /\ line[i] = MS
    THEN [ok |-> TRUE, pos |-> i + 1, groups |-> Append(m.groups, SubSeq(line, m.pos, e - 1))]
    ELSE NoMatch

\* the end of `([kinds]+)` from m.pos handed to ThenMs with the end of `\s*`
ThenTimeEnd(line, m, e) == ThenMs(line, m, e, SkipSp(line, e))

\* `([kinds]+)\s*ms`
ThenTimeMs(line, kinds, m) ==
    IF m.ok THEN ThenTimeEnd(line, m, RunEnd(line, kinds, m.pos)) ELSE NoMatch

\* `(.+)$`
ThenRest(line, m) ==
    IF m.ok /\ m.pos <= Len(line)
    THEN [ok |-> TRUE, pos |-> Len(line) + 1,
          groups |-> Append(m.groups, SubSeq(line, m.pos, Len(line)))]
    ELSE NoMatch

WinTimeKinds == {"int", "*"}

\* `\s+([\d\*]+)\s*ms`
ThenWinTime(line, m) == ThenTimeMs(line, WinTimeKinds, ThenSpaces(line, m))

\* the regular expression of line 395 on a stripped line: the five groups
WinHopMatch(line) ==
    ThenRest(line, ThenSpaces(line,
        ThenWinTime(line, ThenWinTime(line, ThenWinTime(line,
            ThenIndex(line, MatchStart(line)))))))

ThreeStars == <<STAR, SP, STAR, SP, STAR>>

\* sum(...) / len(...) over the entries present, None if there are none
AvgOf(present) ==
    IF present = <<>> THEN None
    ELSE Some(FloatMean([i \in 1..Len(present) |-> present[i][1]]))

\* line 413: the average of the entries of times that are not None
AvgPresent(times) == AvgOf(SelectSeq(times, LAMBDA t : t # None))

TraceAcc0 == [hops |-> <<>>, raised |-> FALSE, exc |-> Raise("", <<>>)]

NoTimes == [ok |-> TRUE, val |-> <<>>, exc |-> Raise("", <<>>)]

\* times.append(v) for the first group when the later ones gave r
ConsTime(v, r) == IF r.ok THEN [r EXCEPT !.val = <<v>> \o @] ELSE r

\* times.append(float(t)), or the ValueError of float(t)
ConsFloat(f, r) ==
    IF f.ok THEN ConsTime(Some(f.val), r) ELSE [ok |-> FALSE, val |-> <<>>, exc |-> f.exc]

\* lines 398-403: the times of a Windows hop, or the ValueError of float(t)
RECURSIVE WinTimes(_)
WinTimes(groups) ==
    IF groups = <<>> THEN NoTimes
    ELSE IF Head(groups) = <<STAR>> THEN ConsTime(None, WinTimes(Tail(groups)))
    ELSE ConsFloat(PyFloat(Head(groups)), WinTimes(Tail(groups)))

\* WinHost without the normalisation of line 407
WinHost_Raw(h) == h

\* lines 405-407: the host field, stripped and normalised
WinHost(h) == IF h[1] = W("Request timed out.") THEN ThreeStars ELSE h

\* lines 409-414: hops.append(...), unless float(t) raised
WinAppendHop(acc, hop_num, t, host) ==
    IF ~t.ok THEN [acc EXCEPT !.raised = TRUE, !.exc = t.exc]
    ELSE [acc EXCEPT !.hops = Append(@,
             [hop |-> hop_num, host |-> host, times |-> t.val,
              avg_time |-> AvgPresent(t.val)])]

\* lines 396-414: the body of `if match:`
WinMatched(acc, m) ==
    IF ~m.ok THEN acc
    ELSE WinAppendHop(acc, m.groups[1][1].v, WinTimes(SubSeq(m.groups, 2, 4)),
                      WinHost(Strip(m.groups[5])))

\* lines 390-395 on the stripped line
WinStripped(acc, line) ==
    IF line = <<>> THEN acc ELSE WinMatched(acc, WinHopMatch(line))

\* one iteration of the Windows loop, lines 390-414
WinTraceLine(acc, raw) == WinStripped(acc, Strip(raw))

PosixTimeKinds == {"int", "flt", "dotted", "."}

\* `([^\s]+)`
ThenHostname(line, m, e) ==
    IF m.ok /\ e > m.pos
    THEN [ok |-> TRUE, pos |-> e, groups |-> Append(m.groups, SubSeq(line, m.pos, e - 1))]
    ELSE NoMatch

\* `\(([^)]+)\)` with e the position of the first `)` after the `(`
ThenParenIp(line, m, e) ==
    IF m.ok /\ m.pos <= Len(line) /\ line[m.pos] = LP /\ e > m.pos + 1 /\ e <= Len(line)
    THEN [ok |-> TRUE, pos |-> e + 1,
          groups |-> Append(m.groups, SubSeq(line, m.pos + 1, e - 1))]
    ELSE NoMatch

\* `(\d+)\s+([^\s]+)`
ThenIndexHost(line, m) ==
    IF m.ok THEN ThenHostname(line, m, RunEndNot(line, {" "}, m.pos)) ELSE NoMatch

\* `\s+\(([^)]+)\)`
ThenSpIp(line, m) ==
    IF m.ok THEN ThenParenIp(line, m, RunEndNot(line, {")"}, m.pos + 1)) ELSE NoMatch

\* a time group that took part in the match is Some(text)
WrapLast(m) ==
    IF m.ok THEN [m EXCEPT !.groups = SubSeq(@, 1, Len(@) - 1) \o <<Some(@[Len(@)])>>]
    ELSE NoMatch

\* `(?:\s+([\d.]+)\s*ms)?` with t the match of its inside: a group that takes
\* no part leaves None and the position where it was
OrSkip(m, t) ==
    IF ~m.ok THEN NoMatch
    ELSE IF t.ok THEN t
    ELSE [m EXCEPT !.groups = Append(@, None)]

\* `\s+([\d.]+)\s*ms`
ThenPosixTime(line, m) == WrapLast(ThenTimeMs(line, PosixTimeKinds, ThenSpaces(line, m)))

\* `(?:\s+([\d.]+)\s*ms)?`
ThenOptPosixTime(line, m) == OrSkip(m, ThenPosixTime(line, m))

\* the regular expression of line 423 on a stripped line: the six groups,
\* the text of a time group wrapped as an optional value
PosixHopMatch(line) ==
    ThenOptPosixTime(line, ThenOptPosixTime(line, ThenPosixTime(line,
        ThenSpIp(line, ThenSpaces(line,
            ThenIndexHost(line, ThenSpaces(line, ThenIndex(line, MatchStart(line)))))))))

\* the regular expression of line 426
PosixStarsMatch(line) ==
    ThenStar(line, ThenOptSpaces(line, ThenStar(line, ThenOptSpaces(line,
        ThenStar(line, ThenSpaces(line, ThenIndex(line, MatchStart(line))))))))

\* t.replace('.', '').isdigit()
DigitsAfterDots(tok) ==
    /\ \A i \in 1..Len(tok) : tok[i].k \in {"int", "flt", "dotted", "."}
    /\ \E i \in 1..Len(tok) : tok[i].k \in {"int", "flt", "dotted"}

\* times.append(float(t)), or the ValueError of float(t)
ConsPosixFloat(f, r) ==
    IF f.ok THEN ConsTime(f.val, r) ELSE [ok |-> FALSE, val |-> <<>>, exc |-> f.exc]

\* lines 440-444: the times of a POSIX hop, or the ValueError of float(t)
RECURSIVE PosixTimes(_)
PosixTimes(groups) ==
    IF groups = <<>> THEN NoTimes
    ELSE IF Head(groups) # None /\ DigitsAfterDots(Head(groups)[1])
    THEN ConsPosixFloat(PyFloat(Head(groups)[1]), PosixTimes(Tail(groups)))
    ELSE PosixTimes(Tail(groups))

\* PadNone that puts the None entries ahead of the samples
PadNone_Leading(times) ==
    [i \in 1..(IF Len(times) < 3 THEN 3 - Len(times) ELSE 0) |-> None]
        \o [i \in 1..Len(times) |-> Some(times[i])]

\* PadNone without the padding
PadNone_Omit(times) == [i \in 1..Len(times) |-> Some(times[i])]

\* times + [None] * (3 - len(times))
PadNone(times) ==
    [i \in 1..Len(times) |-> Some(times[i])]
        \o [i \in 1..(IF Len(times) < 3 THEN 3 - Len(times) ELSE 0) |-> None]

\* PosixHost that writes `hostname (ip)` also when the two are equal
PosixHost_Always(hostname, ip) == hostname \o <<SP, LP>> \o ip \o <<RP>>

\* line 446
PosixHost(hostname, ip) ==
    IF hostname # ip THEN hostname \o <<SP, LP>> \o ip \o <<RP>> ELSE ip

\* PosixAppendHop whose average divides by the length of the padded list
PosixAppendHop_AvgOverThree(acc, hop_num, t, host) ==
    IF ~t.ok THEN [acc EXCEPT !.raised = TRUE, !.exc = t.exc]
    ELSE [acc EXCEPT !.hops = Append(@,
             [hop |-> hop_num, host |-> host, times |-> PadNone(t.val),
              avg_time |-> IF t.val # <<>> THEN Some(FloatDivInt(FloatSum(FZero, t.val), 3))
                                           ELSE None])]

\* lines 448-453: hops.append(...), unless float(t) raised
PosixAppendHop(acc, hop_num, t, host) ==
    IF ~t.ok THEN [acc EXCEPT !.raised = TRUE, !.exc = t.exc]
    ELSE [acc EXCEPT !.hops = Append(@,
             [hop |-> hop_num, host |-> host, times |-> PadNone(t.val),
              avg_time |-> IF t.val # <<>> THEN Some(FloatMean(t.val)) ELSE None])]

\* lines 426-435: the body of `if not match:`
PosixUnmatched(acc, m2) ==
    IF m2.ok
    THEN [acc EXCEPT !.hops = Append(@,
             [hop |-> m2.groups[1][1].v, host |-> ThreeStars,
              times |-> <<None, None, None>>, avg_time |-> None])]
    ELSE acc

\* lines 437-453
PosixMatched(acc, m) ==
    PosixAppendHop(acc, m.groups[1][1].v, PosixTimes(SubSeq(m.groups, 4, 6)),
                   PosixHost(m.groups[2], m.groups[3]))

\* lines 423-453 with the results of the two regular expressions
PosixDispatch(acc, m, m2) ==
    IF ~m.ok THEN PosixUnmatched(acc, m2) ELSE PosixMatched(acc, m)

\* lines 419-423 on the stripped line
PosixStripped(acc, line) ==
    IF line = <<>> \/ line[1].k = "traceroute" THEN acc
    ELSE PosixDispatch(acc, PosixHopMatch(line), PosixStarsMatch(line))

\* one iteration of the POSIX loop, lines 418-453
PosixTraceLine(acc, raw) == PosixStripped(acc, Strip(raw))

TraceLine(osname, acc, line) ==
    IF osname = "nt" THEN WinTraceLine(acc, line) ELSE PosixTraceLine(acc, line)

\* the loop over output.split('\n'); a raise leaves the loop
RECURSIVE TraceLoop(_, _, _)
TraceLoop(osname, acc, lines) ==
    IF lines = <<>> \/ acc.raised THEN acc
    ELSE TraceLoop(osname, TraceLine(osname, acc, Head(lines)), Tail(lines))

\* lines 458 and 461: the one-element list both handlers return
TraceError(e) == << [error |-> e.msg, success |-> FALSE] >>

\* TraceExcept whose catch-all clause returns the sentinel without logging
TraceExcept_Silent(e) ==
    IF IsInstance(e, "CalledProcessError")
    THEN [how |-> "return", log |-> <<"Traceroute failed">>, ret |-> TraceError(e)]
    ELSE IF IsInstance(e, "Exception")
    THEN [how |-> "return", log |-> <<>>, ret |-> TraceError(e)]
    ELSE [how |-> "raise", log |-> <<>>, ret |-> << [exception |-> e.type] >>]

\* the except clauses of traceroute, lines 456-461, tried in order
TraceExcept(e) ==
    IF IsInstance(e, "CalledProcessError")
    THEN [how |-> "return", log |-> <<"Traceroute failed">>, ret |-> TraceError(e)]
    ELSE IF IsInstance(e, "Exception")
    THEN [how |-> "return", log |-> <<"Error performing traceroute">>, ret |-> TraceError(e)]
    ELSE [how |-> "raise", log |-> <<>>, ret |-> << [exception |-> e.type] >>]

TraceParse_KeepHops(osname, out) ==
    LET acc == TraceLoop(osname, TraceAcc0, out)
    IN  IF acc.raised
        THEN [how |-> "return", log |-> TraceExcept(acc.exc).log,
              ret |-> acc.hops \o TraceError(acc.exc)]
        ELSE [how |-> "return", log |-> <<>>, ret |-> acc.hops]

\* lines 384-455 under the try: parse the captured text and return, or raise
TraceParse(osname, out) ==
    LET acc == TraceLoop(osname, TraceAcc0, out)
    IN  IF acc.raised THEN TraceExcept(acc.exc)
        ELSE [how |-> "return", log |-> <<>>, ret |-> acc.hops]

(***************************************************************************)
(* Methods of the manager classes outside the probe: what each does when   *)
(* its OS or library call fails (fails = TRUE) and when it does not.       *)
(***************************************************************************)
\* an except clause that logs and returns a default
LogAndReturn(msg, default) == [how |-> "return", log |-> <<msg>>, ret |-> [value |-> default]]

\* an except clause that logs and ends in a bare `raise`
LogAndReraise(msg) == [how |-> "raise", log |-> <<msg>>, ret |-> [exception |-> "Exception"]]

Returns(v) == [how |-> "return", log |-> <<>>, ret |-> [value |-> v]]

FileSystem_read_file(fails) ==
    IF fails THEN LogAndReraise("Error reading file") ELSE Returns("content")

FileSystem_write_file(fails) ==
    IF fails THEN LogAndReturn("Error writing to file", "False") ELSE Returns("True")

FileSystem_get_file_info(fails) ==
    IF fails THEN LogAndReturn("Error getting file info", "None") ELSE Returns("info")

FileSystem_create_temp_file(fails) ==
    IF fails THEN LogAndReraise("Error creating temporary file") ELSE Returns("name")

Process_info(fails) ==
    IF fails THEN LogAndReraise("Error getting process info") ELSE Returns("ProcessInfo")

Process_kill(fails) ==
    IF fails THEN LogAndReturn("Error killing process", "False") ELSE Returns("True")

ProcessManager_run_command(fails) ==
    IF fails THEN LogAndReraise("Error running command") ELSE Returns("CompletedProcess")

ProcessManager_create_process(fails) ==
    IF fails THEN LogAndReraise("Error creating process") ELSE Returns("Popen")

\* the content of a file that does not exist, and of one written in part
Absent == "absent"

Partial == "partial"

\* what a copy_file / move_file call yields: the value returned, the
\* message logged and the two files afterwards
FileOutcome(ok, msgs, files) ==
    [out |-> [how |-> "return", log |-> msgs, ret |-> [value |-> IF ok THEN "True" ELSE "False"]],
     files |-> files]

\* copy_file, filesystem.py lines 56-67. f holds the content of src and of
\* dst (Absent for a missing file), dir is os.path.dirname(dst), fault is
\* what the file system refuses: "write" lets shutil.copy2 raise before it
\* writes to dst, "midway" after it has opened dst for writing.
\* os.makedirs('') raises FileNotFoundError; copy2 opens src first.
FileSystem_copy_file(f, overwrite, dir, fault) ==
    IF f.dst # Absent /\ ~overwrite THEN FileOutcome(FALSE, <<>>, f)
    ELSE IF dir = "" \/ f.src = Absent \/ fault = "write"
    THEN FileOutcome(FALSE, <<"Error copying file">>, f)
    ELSE IF fault = "midway"
    THEN FileOutcome(FALSE, <<"Error copying file">>, [f EXCEPT !.dst = Partial])
    ELSE FileOutcome(TRUE, <<>>, [f EXCEPT !.dst = f.src])

\* move_file from os.makedirs on, lines 78-83; f is the pair after os.remove
MoveAfterRemove(f, dir, fault) ==
    IF dir = "" \/ f.src = Absent \/ fault = "write"
    THEN FileOutcome(FALSE, <<"Error moving file">>, f)
    ELSE IF fault = "midway"
    THEN FileOutcome(FALSE, <<"Error moving file">>, [f EXCEPT !.dst = Partial])
    ELSE FileOutcome(TRUE, <<>>, [src |-> Absent, dst |-> f.src])

\* move_file, lines 69-83: an existing dst is removed (line 74) before the
\* directory is made and src is moved; fault "remove" lets os.remove raise
FileSystem_move_file(f, overwrite, dir, fault) ==
    IF f.dst # Absent /\ ~overwrite THEN FileOutcome(FALSE, <<>>, f)
    ELSE IF f.dst # Absent /\ fault = "remove"
    THEN FileOutcome(FALSE, <<"Error moving file">>, f)
    ELSE MoveAfterRemove([f EXCEPT !.dst = Absent], dir, fault)

FileMethods == {"FileSystem.copy_file", "FileSystem.move_file"}

FileOp(m, f, overwrite, dir, fault) ==
    IF m = "FileSystem.copy_file" THEN FileSystem_copy_file(f, overwrite, dir, fault)
                                  ELSE FileSystem_move_file(f, overwrite, dir, fault)

\* the exceptions of psutil that the terminate methods catch
Denials == {"NoSuchProcess", "AccessDenied"}

\* what a terminate call yields: the value returned with the messages
\* logged, and the requests made of the process with their answers
TerminateOutcome(out, calls, t, w, k) ==
    [out |-> out, ps |-> [calls |-> calls, terminate |-> t, wait |-> w, kill |-> k]]

\* Process.terminate, process.py lines 155-167. t, w, k are the answers of
\* psutil to terminate(), wait(timeout) and kill(). On TimeoutExpired it
\* calls self.kill() (lines 169-176), which catches the denial itself,
\* and returns True whatever kill() returned.
Process_terminate(t, w, k) ==
    IF t \in Denials
    THEN TerminateOutcome(LogAndReturn("Error terminating process", "False"),
                          <<"terminate">>, t, "none", "none")
    ELSE IF w = "exited"
    THEN TerminateOutcome(Returns("True"), <<"terminate", "wait">>, t, w, "none")
    ELSE TerminateOutcome([how |-> "return", log |-> Process_kill(k \in Denials).log,
                           ret |-> [value |-> "True"]],
                          <<"terminate", "wait", "kill">>, t, w, k)

\* ProcessInfo.terminate, lines 34-50: proc.kill() is called in the handler
\* of TimeoutExpired inside the outer try, so its denial reaches the outer
\* except clause
ProcessInfo_terminate(t, w, k) ==
    IF t \in Denials
    THEN TerminateOutcome(LogAndReturn("Error terminating process", "False"),
                          <<"terminate">>, t, "none", "none")
    ELSE IF w = "exited"
    THEN TerminateOutcome(Returns("True"), <<"terminate", "wait">>, t, w, "none")
    ELSE TerminateOutcome(IF k \in Denials
                          THEN LogAndReturn("Error terminating process", "False")
                          ELSE Returns("True"),
                          <<"terminate", "wait", "kill">>, t, w, k)

TerminateMethods == {"Process.terminate", "ProcessInfo.terminate"}

TerminateOp(m, t, w, k) ==
    IF m = "Process.terminate" THEN Process_terminate(t, w, k)
                               ELSE ProcessInfo_terminate(t, w, k)

Methods ==
    {"FileSystem.read_file", "FileSystem.write_file", "FileSystem.get_file_info",
     "FileSystem.create_temp_file", "Process.info", "Process.kill",
     "ProcessManager.run_command", "ProcessManager.create_process"}

MethodCall(m, fails) ==
    CASE m = "FileSystem.read_file"             -> FileSystem_read_file(fails)
      [] m = "FileSystem.write_file"            -> FileSystem_write_file(fails)
      [] m = "FileSystem.get_file_info"         -> FileSystem_get_file_info(fails)
      [] m = "FileSystem.create_temp_file"      -> FileSystem_create_temp_file(fails)
      [] m = "Process.info"                     -> Process_info(fails)
      [] m = "Process.kill"                     -> Process_kill(fails)
      [] m = "ProcessManager.run_command"       -> ProcessManager_run_command(fails)
      [] m = "ProcessManager.create_process"    -> ProcessManager_create_process(fails)

(***************************************************************************)
(* Inputs.                                                                 *)
(***************************************************************************)
Hosts == {"example.org"}

Counts == {4}

Timeouts == {1, 2}

ExitCodes == {1}

HostLex == W("10.0.0.1")

\* Windows ping: a reply, a slower reply, a line with both markers and the
\* word timeout, a reply whose time is no integer, a reply with `time<1ms`
WinReply10 == <<W("Reply from"), SP, BYTES_EQ, I(32), SP, TIME_EQ, I(10), MS, SP, W("TTL=64")>>

WinReply30 == <<W("Reply from"), SP, BYTES_EQ, I(32), SP, TIME_EQ, I(30), MS, SP, W("TTL=64")>>

WinTimeoutLine == <<BYTES_EQ, I(32), SP, TIME_EQ, TIMEOUT>>

\* a line with `bytes=32` and the word timeout but no `time=`
WinTimeoutNoTime == <<BYTES_EQ, I(32), SP, TIMEOUT>>

WinBadTime == <<W("Reply from"), SP, BYTES_EQ, I(32), SP, TIME_EQ, F(105), MS>>

WinSubMs == <<W("Reply from"), SP, BYTES_EQ, I(32), SP, W("time<"), I(1), MS>>

\* POSIX ping: two replies, a reply line without a time, a reply whose time
\* runs into the unit
PosixReply123 == <<I(64), SP, BYTES_FROM, SP, HostLex, SP, TIME_EQ, F(123), SP, MS>>

PosixReply45 == <<I(64), SP, BYTES_FROM, SP, HostLex, SP, TIME_EQ, F(45), SP, MS>>

PosixNoTime == <<I(64), SP, BYTES_FROM, SP, HostLex>>

PosixBadTime == <<I(64), SP, BYTES_FROM, SP, HostLex, SP, TIME_EQ, F(123), MS>>

\* lines of no grammar: a banner and the empty line
Banner == <<W("PING"), SP, HostLex, SP, W("bytes of data.")>>

EmptyLine == <<>>

\* Windows tracert: a hop, a hop of three wildcards, a hop whose first
\* sample is `1*`, the timed-out line as tracert prints it (no unit)
WinHop == <<SP, I(1), SP, I(1), SP, MS, SP, I(2), SP, MS, SP, I(4), SP, MS, SP, HostLex>>

WinHopStars == <<I(2), SP, STAR, SP, MS, SP, STAR, SP, MS, SP, I(7), SP, MS, SP,
                 W("Request timed out.")>>

WinHopBad == <<I(3), SP, I(1), STAR, SP, MS, SP, I(2), SP, MS, SP, I(3), SP, MS, SP, HostLex>>

WinHopNoUnit == <<I(4), SP, STAR, SP, STAR, SP, STAR, SP, W("Request timed out.")>>

\* POSIX traceroute: the header, a hop with three samples, a hop whose
\* second probe is `*`, an unreachable hop, a hop whose sample is `1.2.3`
PosixHeader == <<W("traceroute"), SP, W("to"), SP, HostLex>>

PosixHop3 == <<SP, I(1), SP, SP, W("gw"), SP, LP, HostLex, RP, SP, SP, F(11), SP, MS,
               SP, SP, F(12), SP, MS, SP, SP, F(13), SP, MS>>

PosixHopGap == <<I(2), SP, HostLex, SP, LP, HostLex, RP, SP, F(20), SP, MS, SP, STAR,
                 SP, F(30), SP, MS>>

\* a hop whose hostname is its address, with two samples
PosixHopIp2 == <<I(4), SP, HostLex, SP, LP, HostLex, RP, SP, SP, F(20), SP, MS,
                 SP, SP, F(30), SP, MS>>

PosixHopStars == <<I(5), SP, STAR, SP, STAR, SP, STAR>>

PosixHopBad == <<I(6), SP, W("gw"), SP, LP, HostLex, RP, SP, [k |-> "dotted", v |-> 123], SP, MS>>

\* what the ping command of the platform may print, line by line: the lines
\* of its dialect, a line of the other dialect, a banner and the empty line
PingLines(osname) ==
    IF osname = "nt"
    THEN {WinReply10, WinReply30, WinTimeoutLine, WinTimeoutNoTime, WinBadTime, WinSubMs,
          PosixReply45, Banner, EmptyLine}
    ELSE {PosixReply123, PosixReply45, PosixNoTime, PosixBadTime,
          WinReply10, Banner, EmptyLine}

\* what the traceroute command of the platform may print, line by line
TraceLines(osname) ==
    IF osname = "nt"
    THEN {WinHop, WinHopStars, WinHopBad, WinHopNoUnit,
          PosixHop3, Banner, EmptyLine}
    ELSE {PosixHeader, PosixHop3, PosixHopGap, PosixHopIp2, PosixHopStars, PosixHopBad,
          WinHop, Banner, EmptyLine}

\* the captured texts: every sequence of at most MaxLines lines of the command
Outputs(operation, osname) ==
    UNION {[1..n -> IF operation = "ping" THEN PingLines(osname) ELSE TraceLines(osname)] :
               n \in 0..MaxLines}

\* the files of a copy or move: src present or missing, dst present or missing
FilePairs == [src : {Absent, "new"}, dst : {Absent, "old"}]

\* os.path.dirname(dst): empty for a bare file name
DstDirs == {"", "dir"}

FileFaults == {"none", "remove", "write", "midway"}

TerminateAnswers == {"ok"} \cup Denials

WaitAnswers == {"exited", "TimeoutExpired"}

KillAnswers == {"ok"} \cup Denials

\* the captured texts of the calls of two contexts: at most MaxLinesTwo
\* lines, each a line the dialect accepts, the line whose parsing raises
\* or a line it skips
MaxLinesTwo == 1

ShortLines(operation, osname) ==
    IF operation = "ping"
    THEN (IF osname = "nt" THEN {WinReply10, WinBadTime, Banner}
                           ELSE {PosixReply123, PosixBadTime, Banner})
    ELSE (IF osname = "nt" THEN {WinHop, WinHopBad, Banner}
                           ELSE {PosixHop3, PosixHopBad, Banner})

ShortOutputs(operation, osname) ==
    UNION {[1..n -> ShortLines(operation, osname)] : n \in 0..MaxLinesTwo}

(***************************************************************************)
(* State.                                                                  *)
(***************************************************************************)
VARIABLES
    os_name,    \* what the global `os.name` of network.py evaluates to
    pc,         \* "idle", "spawn" (the child runs), "done", "raised"
    op,         \* the operation in progress or just ended
    req,        \* its arguments
    cmd,        \* the command list handed to subprocess.check_output
    proc,       \* what became of the child process or of the OS call
    result,     \* the value returned (a record; hops for traceroute)
    hops,       \* the list traceroute returned
    log,        \* the messages the call handed to ErrorHandler.log_error, in order
    others,     \* the call of a second execution context, while it does not run
    mon,        \* a SystemMonitor object and the call of monitor_* in progress on it
    fs,         \* the two files of a copy_file / move_file call, before and after
    ps          \* what a terminate call asked of the process, and the answers

vars == <<os_name, pc, op, req, cmd, proc, result, hops, log, others, mon, fs, ps>>

Unbound == "NameError"

NoReq == [host |-> "", count |-> 0, timeout |-> 0]

NoProc == [status |-> "none", rc |-> 0, output |-> <<>>]

NoResult == [none |-> TRUE]

\* a context that is between two calls
NoCall ==
    [pc |-> "idle", op |-> "none", req |-> NoReq, cmd |-> <<>>, proc |-> NoProc,
     result |-> NoResult, hops |-> <<>>, log |-> <<>>]

NoFiles == [before |-> [src |-> Absent, dst |-> Absent], after |-> [src |-> Absent, dst |-> Absent]]

NoTerminate == [calls |-> <<>>, terminate |-> "none", wait |-> "none", kill |-> "none"]

\* SystemMonitor.__init__, system.py lines 160-163, and no call in progress.
\* stop is self._stop_event; results is the length of the list of the call
\* in progress, called the number of callback invocations, ret the list
\* returned; entered_stopped is the value the flag had when the call began.
NewMonitor ==
    [stop |-> FALSE, pc |-> "idle", method |-> "none", callback |-> "none",
     entered_stopped |-> FALSE, results |-> 0, called |-> 0, ret |-> None, log |-> <<>>]

\* network.py imports socket, subprocess, ipaddress, re, json and urllib but
\* not os: as shipped the name is unbound and `os.name` raises NameError.
\* "nt" and "posix" are the values it has in a process where the name has
\* been bound in the module's namespace.
Init ==
    /\ os_name \in {Unbound, "nt", "posix"}
    /\ pc = "idle"
    /\ op = "none"
    /\ req = NoReq
    /\ cmd = <<>>
    /\ proc = NoProc
    /\ result = NoResult
    /\ hops = <<>>
    /\ log = <<>>
    /\ others = NoCall
    /\ mon = NewMonitor
    /\ fs = NoFiles
    /\ ps = NoTerminate

\* ErrorHandler.log_error: accepts a message, returns nothing, raises nothing
LogError(l, msgs) == l \o msgs

\* the call ends: with o.how = "return" the caller gets o.ret, otherwise the
\* exception leaves the method
Finish(o, operation) ==
    /\ pc' = IF o.how = "return" THEN "done" ELSE "raised"
    /\ log' = LogError(log, o.log)
    /\ IF operation = "traceroute"
       THEN hops' = o.ret /\ result' = NoResult
       ELSE result' = o.ret /\ hops' = <<>>

\* ping(host, count, timeout) up to the launch of the child, lines 285-295
Ping(host, count, timeout) ==
    /\ pc = "idle"
    /\ op' = "ping"
    /\ req' = [host |-> host, count |-> count, timeout |-> timeout]
    /\ proc' = NoProc
    /\ IF os_name = Unbound
       THEN /\ cmd' = <<>>
            /\ Finish(PingExcept(host, NameErrorOs), "ping")
       ELSE /\ cmd' = PingCmd(os_name, host, count, timeout)
            /\ pc' = "spawn"
            /\ UNCHANGED <<result, hops, log>>
    /\ UNCHANGED <<os_name, others, mon, fs, ps>>

\* traceroute(host, max_hops, timeout) up to the launch of the child,
\* lines 369-382
Traceroute(host, max_hops, timeout) ==
    /\ pc = "idle"
    /\ op' = "traceroute"
    /\ req' = [host |-> host, count |-> max_hops, timeout |-> timeout]
    /\ proc' = NoProc
    /\ IF os_name = Unbound
       THEN /\ cmd' = <<>>
            /\ Finish(TraceExcept(NameErrorOs), "traceroute")
       ELSE /\ cmd' = TraceCmd(os_name, host, max_hops, timeout)
            /\ pc' = "spawn"
            /\ UNCHANGED <<result, hops, log>>
    /\ UNCHANGED <<os_name, others, mon, fs, ps>>

Except(e) == IF op = "ping" THEN PingExcept(req.host, e) ELSE TraceExcept(e)

\* subprocess.check_output cannot start the child and raises OSError
LaunchFails ==
    /\ pc = "spawn"
    /\ proc' = [status |-> "launch_failed", rc |-> 0, output |-> <<>>]
    /\ Finish(Except(LaunchError(cmd)), op)
    /\ UNCHANGED <<os_name, op, req, cmd, others, mon, fs, ps>>

\* the child prints out and exits with status rc # 0: check_output raises
\* CalledProcessError
ExitNonZero(out, rc) ==
    /\ pc = "spawn"
    /\ proc' = [status |-> "exited", rc |-> rc, output |-> out]
    /\ Finish(Except(CalledProcessError(cmd, rc)), op)
    /\ UNCHANGED <<os_name, op, req, cmd, others, mon, fs, ps>>

\* ExitZero whose traceroute appends to a list kept on the object, which
\* holds what the other call in progress has put there
ExitZero_SharedHops(out) ==
    /\ pc = "spawn"
    /\ proc' = [status |-> "exited", rc |-> 0, output |-> out]
    /\ Finish(IF op = "ping" THEN PingParse(os_name, req.host, out)
                             ELSE [TraceParse(os_name, out) EXCEPT !.ret = others.hops \o @], op)
    /\ UNCHANGED <<os_name, op, req, cmd, others, mon, fs, ps>>

\* the child prints out and exits with status 0: the method parses out
ExitZero(out) ==
    /\ pc = "spawn"
    /\ proc' = [status |-> "exited", rc |-> 0, output |-> out]
    /\ Finish(IF op = "ping" THEN PingParse(os_name, req.host, out)
                             ELSE TraceParse(os_name, out), op)
    /\ UNCHANGED <<os_name, op, req, cmd, others, mon, fs, ps>>

\* a call of one of the other methods of the manager classes
Method(m, fails) ==
    /\ pc = "idle"
    /\ op' = m
    /\ req' = NoReq
    /\ cmd' = <<>>
    /\ proc' = [status |-> IF fails THEN "failed" ELSE "ok", rc |-> 0, output |-> <<>>]
    /\ Finish(MethodCall(m, fails), m)
    /\ UNCHANGED <<os_name, others, mon, fs, ps>>

\* a call of copy_file or move_file on the pair of files f
FileCall(m, f, overwrite, dir, fault) ==
    /\ pc = "idle"
    /\ op' = m
    /\ req' = NoReq
    /\ cmd' = <<>>
    /\ proc' = NoProc
    /\ fs' = [before |-> f, after |-> FileOp(m, f, overwrite, dir, fault).files]
    /\ Finish(FileOp(m, f, overwrite, dir, fault).out, m)
    /\ UNCHANGED <<os_name, others, mon, ps>>

\* a call of Process.terminate or ProcessInfo.terminate on a process that
\* answers t, w and k
Terminate(m, t, w, k) ==
    /\ pc = "idle"
    /\ op' = m
    /\ req' = NoReq
    /\ cmd' = <<>>
    /\ proc' = NoProc
    /\ ps' = TerminateOp(m, t, w, k).ps
    /\ Finish(TerminateOp(m, t, w, k).out, m)
    /\ UNCHANGED <<os_name, others, mon, fs>>

\* the caller has the value (or the exception) and goes on to its next call
Return ==
    /\ pc \in {"done", "raised"}
    /\ pc' = "idle"
    /\ op' = "none"
    /\ req' = NoReq
    /\ cmd' = <<>>
    /\ proc' = NoProc
    /\ result' = NoResult
    /\ hops' = <<>>
    /\ log' = <<>>
    /\ fs' = NoFiles
    /\ ps' = NoTerminate
    /\ UNCHANGED <<os_name, others, mon>>

Next ==
    \/ \E h \in Hosts, c \in Counts, t \in Timeouts : Ping(h, c, t)
    \/ \E h \in Hosts, c \in Counts, t \in Timeouts : Traceroute(h, c, t)
    \/ LaunchFails
    \/ pc = "spawn" /\ \E out \in Outputs(op, os_name), rc \in ExitCodes : ExitNonZero(out, rc)
    \/ pc = "spawn" /\ \E out \in Outputs(op, os_name) : ExitZero(out)
    \/ \E m \in Methods, f \in BOOLEAN : Method(m, f)
    \/ \E m \in FileMethods, f \in FilePairs, ow \in BOOLEAN, d \in DstDirs, x \in FileFaults :
           FileCall(m, f, ow, d, x)
    \/ \E m \in TerminateMethods, t \in TerminateAnswers, w \in WaitAnswers, k \in KillAnswers :
           Terminate(m, t, w, k)
    \/ Return

Spec == Init /\ [][Next]_vars

(***************************************************************************)
(* SystemMonitor: one object, a thread that calls monitor_cpu or           *)
(* monitor_memory on it and another that may call stop_monitoring at any   *)
(* moment.  callback is what the caller passed: none, one that returns,    *)
(* one that calls stop_monitoring, one that raises.                        *)
(***************************************************************************)
MaxSamples == 2

MonitorMethods == {"cpu", "memory"}

Callbacks == {"none", "plain", "stops", "raises"}

\* `return results`, lines 193 and 235
MonitorDone(m) == [m EXCEPT !.pc = "done", !.ret = Some(m.results)]

\* the except clause, lines 190-191 and 232-233, and the return after it
MonitorExcept(m) ==
    MonitorDone([m EXCEPT !.log = Append(@, IF m.method = "cpu" THEN "Error monitoring CPU"
                                                               ELSE "Error monitoring memory")])

\* MonitorStart that clears the flag when a call begins
MonitorStart_ClearsFlag(method, callback) ==
    /\ mon.pc = "idle"
    /\ mon' = [NewMonitor EXCEPT !.stop = FALSE, !.pc = "test", !.method = method,
                                 !.callback = callback, !.entered_stopped = mon.stop]
    /\ UNCHANGED <<os_name, pc, op, req, cmd, proc, result, hops, log, others, fs, ps>>

\* monitor_cpu / monitor_memory up to the loop, lines 167-171 and 197-201
MonitorStart(method, callback) ==
    /\ mon.pc = "idle"
    /\ mon' = [NewMonitor EXCEPT !.stop = mon.stop, !.pc = "test", !.method = method,
                                 !.callback = callback, !.entered_stopped = mon.stop]
    /\ UNCHANGED <<os_name, pc, op, req, cmd, proc, result, hops, log, others, fs, ps>>

\* MonitorTest whose condition is the elapsed time alone
MonitorTest_IgnoresFlag(elapsed) ==
    /\ mon.pc = "test"
    /\ ~elapsed => mon.results < MaxSamples
    /\ mon' = IF ~elapsed THEN [mon EXCEPT !.pc = "sample"] ELSE MonitorDone(mon)
    /\ UNCHANGED <<os_name, pc, op, req, cmd, proc, result, hops, log, others, fs, ps>>

\* the while condition, lines 173 and 203; elapsed tells whether duration
\* has passed since start_time
MonitorTest(elapsed) ==
    /\ mon.pc = "test"
    /\ ~elapsed => mon.results < MaxSamples
    /\ mon' = IF ~elapsed /\ ~mon.stop THEN [mon EXCEPT !.pc = "sample"] ELSE MonitorDone(mon)
    /\ UNCHANGED <<os_name, pc, op, req, cmd, proc, result, hops, log, others, fs, ps>>

\* lines 174-182 and 204-224: the sample is taken (psutil.cpu_percent blocks
\* for the interval) and appended to results; fails: the psutil call raises
MonitorSample(fails) ==
    /\ mon.pc = "sample"
    /\ mon' = IF fails THEN MonitorExcept(mon)
              ELSE [mon EXCEPT !.results = @ + 1, !.pc = "callback"]
    /\ UNCHANGED <<os_name, pc, op, req, cmd, proc, result, hops, log, others, fs, ps>>

\* where the loop goes after the callback: monitor_memory sleeps first
AfterCallback(m) == IF m.method = "cpu" THEN "check" ELSE "sleep"

\* lines 184-185 and 226-227: `if callback: callback(result)`
MonitorCallback ==
    /\ mon.pc = "callback"
    /\ mon' = CASE mon.callback = "none"   -> [mon EXCEPT !.pc = AfterCallback(mon)]
                [] mon.callback = "plain"  -> [mon EXCEPT !.called = @ + 1,
                                                          !.pc = AfterCallback(mon)]
                [] mon.callback = "stops"  -> [mon EXCEPT !.called = @ + 1, !.stop = TRUE,
                                                          !.pc = AfterCallback(mon)]
                [] mon.callback = "raises" -> MonitorExcept([mon EXCEPT !.called = @ + 1])
    /\ UNCHANGED <<os_name, pc, op, req, cmd, proc, result, hops, log, others, fs, ps>>

\* line 228: time.sleep(self.interval)
MonitorSleep ==
    /\ mon.pc = "sleep"
    /\ mon' = [mon EXCEPT !.pc = "check"]
    /\ UNCHANGED <<os_name, pc, op, req, cmd, proc, result, hops, log, others, fs, ps>>

\* lines 187-188 and 229-230: `if self._stop_event: break`
MonitorCheck ==
    /\ mon.pc = "check"
    /\ mon' = IF mon.stop THEN MonitorDone(mon) ELSE [mon EXCEPT !.pc = "test"]
    /\ UNCHANGED <<os_name, pc, op, req, cmd, proc, result, hops, log, others, fs, ps>>

\* the caller has the list and goes on; the object stays as it is
MonitorReturn ==
    /\ mon.pc = "done"
    /\ mon' = [NewMonitor EXCEPT !.stop = mon.stop]
    /\ UNCHANGED <<os_name, pc, op, req, cmd, proc, result, hops, log, others, fs, ps>>

\* stop_monitoring, lines 237-239, called by another thread
StopMonitoring ==
    /\ mon' = [mon EXCEPT !.stop = TRUE]
    /\ UNCHANGED <<os_name, pc, op, req, cmd, proc, result, hops, log, others, fs, ps>>

NextMonitor ==
    \/ \E m \in MonitorMethods, c \in Callbacks : MonitorStart(m, c)
    \/ \E e \in BOOLEAN : MonitorTest(e)
    \/ \E f \in BOOLEAN : MonitorSample(f)
    \/ MonitorCallback
    \/ MonitorSleep
    \/ MonitorCheck
    \/ MonitorReturn
    \/ StopMonitoring

SpecMonitor == Init /\ [][NextMonitor]_vars

(***************************************************************************)
(* Two execution contexts calling ping and traceroute on one               *)
(* NetworkManager.  The methods keep everything in locals (the object has  *)
(* the error handler as its only attribute and no method assigns to it),   *)
(* so a context is its own pc, op, req, cmd, proc, result, hops and log:   *)
(* the variables hold those of the context that runs, `others` those of    *)
(* the suspended one.                                                      *)
(***************************************************************************)
\* the scheduler suspends the running context and resumes the other one
Switch ==
    /\ others' = [pc |-> pc, op |-> op, req |-> req, cmd |-> cmd, proc |-> proc,
                  result |-> result, hops |-> hops, log |-> log]
    /\ pc' = others.pc
    /\ op' = others.op
    /\ req' = others.req
    /\ cmd' = others.cmd
    /\ proc' = others.proc
    /\ result' = others.result
    /\ hops' = others.hops
    /\ log' = others.log
    /\ UNCHANGED <<os_name, mon, fs, ps>>

NextTwo ==
    \/ \E h \in Hosts, c \in Counts, t \in Timeouts : Ping(h, c, t)
    \/ \E h \in Hosts, c \in Counts, t \in Timeouts : Traceroute(h, c, t)
    \/ LaunchFails
    \/ pc = "spawn" /\ \E out \in ShortOutputs(op, os_name), rc \in ExitCodes : ExitNonZero(out, rc)
    \/ pc = "spawn" /\ \E out \in ShortOutputs(op, os_name) : ExitZero(out)
    \/ Return
    \/ Switch

SpecTwo == Init /\ [][NextTwo]_vars

(***************************************************************************)
(* Properties.                                                             *)
(***************************************************************************)
PingDone == pc = "done" /\ op = "ping"

TraceDone == pc = "done" /\ op = "traceroute"

ExitedNonZero == proc.status = "exited" /\ proc.rc # 0

ExitedZero == proc.status = "exited" /\ proc.rc = 0

HasKeys(r, keys) == keys \subseteq DOMAIN r

IsZero(q) == q.num = 0

\* the condition under which a loop iteration of ping counts the line
PingRecognised(osname, line) ==
    IF osname = "nt" THEN Has(line, "bytes=") /\ Has(line, "time=")
                     ELSE Has(line, "bytes from")

\* the condition under which a loop iteration of traceroute matches the line
TraceRecognised(osname, line) ==
    IF osname = "nt" THEN WinHopMatch(Strip(line)).ok
                     ELSE PosixHopMatch(Strip(line)).ok \/ PosixStarsMatch(Strip(line)).ok

\* C1: every result returned by ping, on the parse path and on both failure
\* paths, has sent = received + lost and 0 <= loss_percent <= 100.
C1_Claim ==
    PingDone =>
        /\ HasKeys(result, {"sent", "received", "lost", "loss_percent"})
        /\ result.sent = result.received + result.lost
        /\ result.loss_percent.num >= 0
        /\ result.loss_percent.num <= 100 * result.loss_percent.den

\* C2: in every result returned by ping, loss_percent is lost/sent*100 when
\* sent > 0 and is 0 whenever sent = 0, the results of a non-zero exit
\* status and of a failed launch included.
C2_Claim ==
    PingDone =>
        /\ HasKeys(result, {"sent", "lost", "loss_percent"})
        /\ result.sent > 0 =>
               result.loss_percent.num * result.sent = result.lost * 100 * result.loss_percent.den
        /\ result.sent = 0 => IsZero(result.loss_percent)

C4_HopHasThreeTimes ==
    TraceDone =>
        \A i \in 1..Len(hops) :
            "hop" \in DOMAIN hops[i] =>
                /\ Len(hops[i].times) = 3
                /\ \A j \in 1..3 : hops[i].times[j] = None \/ Len(hops[i].times[j]) = 1

\* a POSIX hop line with a single sample, and a second hop after it
C4_Witness ==
    /\ TraceDone
    /\ os_name = "posix"
    /\ Len(hops) = 2
    /\ "hop" \in DOMAIN hops[1]
    /\ hops[1].times[1] # None
    /\ hops[1].times[2] = None
    /\ hops[1].times[3] = None

\* C5: no exception raised by launching the command, by its exit status or
\* by parsing its output leaves ping or traceroute: a call that has ended
\* has returned a value.
C5_NoExceptionEscapes ==
    op \in {"ping", "traceroute"} =>
        /\ pc \in {"spawn", "done"}
        /\ pc = "done" /\ op = "ping" => "success" \in DOMAIN result
        /\ pc = "done" /\ op = "traceroute" =>
               \A i \in 1..Len(hops) : DOMAIN hops[i] \cap {"hop", "error"} # {}

\* a ping whose parse raised ValueError and that returned the error record
C5_Witness ==
    /\ PingDone
    /\ ExitedZero
    /\ "sent" \notin DOMAIN result
    /\ result.success = FALSE

\* C6: every public method of the manager classes, when its OS or library
\* call fails, logs and returns a default value or boolean instead of
\* raising to the caller.
C6_Claim ==
    (pc \in {"done", "raised"} /\ (proc.status \in {"failed", "launch_failed"} \/ ExitedNonZero)) =>
        /\ pc = "done"
        /\ log # <<>>

\* C7: when the ping command cannot be launched, ping returns a result with
\* sent = 0, received = 0, loss_percent = 0, success = false and a
\* diagnostic string.
C7_Claim ==
    (PingDone /\ proc.status = "launch_failed") =>
        /\ HasKeys(result, {"sent", "received", "loss_percent", "success", "error"})
        /\ result.sent = 0
        /\ result.received = 0
        /\ IsZero(result.loss_percent)
        /\ result.success = FALSE

\* C8: when the ping command runs and exits with a non-zero status, ping
\* returns the all-zero result with loss_percent = 100, success = false and
\* an error message, whatever reply lines the captured output held.
C8_ExitFailureIsAllZeroFullLoss ==
    (PingDone /\ ExitedNonZero) =>
        /\ HasKeys(result, {"sent", "received", "lost", "times", "min_time", "max_time",
                            "avg_time", "loss_percent", "success", "error"})
        /\ result.sent = 0
        /\ result.received = 0
        /\ result.lost = 0
        /\ result.times = <<>>
        /\ result.min_time = 0
        /\ result.max_time = 0
        /\ result.avg_time = FZero
        /\ result.loss_percent.num = 100 * result.loss_percent.den
        /\ result.success = FALSE
        /\ result.error # <<>>

\* a non-zero exit whose captured output held two reply lines of the dialect
C8_Witness ==
    /\ PingDone
    /\ ExitedNonZero
    /\ Len(proc.output) = 2
    /\ \A i \in 1..2 : PingRecognised(os_name, proc.output[i])
    /\ "error" \in DOMAIN result

\* C9: when the command exits with a non-zero status, the result of ping,
\* and the single sentinel hop of traceroute, carries the command's captured
\* output text as its diagnostic.
C9_Claim ==
    (pc = "done" /\ ExitedNonZero) =>
        /\ op = "ping" => "error" \in DOMAIN result /\ result.error = proc.output
        /\ op = "traceroute" =>
               /\ Len(hops) = 1
               /\ "error" \in DOMAIN hops[1]
               /\ hops[1].error = proc.output

\* C10: an output line that matches no grammar of the dialect is skipped: the
\* result is the one the recognised lines alone give, so the line changes
\* neither sent nor received, adds no hop and makes no error result,
\* wherever it stands.
C10_UnmatchedLineIsSkipped ==
    (pc = "done" /\ ExitedZero) =>
        /\ op = "ping" =>
               result = PingParse(os_name, req.host,
                           SelectSeq(proc.output, LAMBDA l : PingRecognised(os_name, l))).ret
        /\ op = "traceroute" =>
               hops = TraceParse(os_name,
                           SelectSeq(proc.output, LAMBDA l : TraceRecognised(os_name, l))).ret

\* an unmatched line ahead of a reply line of a ping that counted one reply
C10_Witness ==
    /\ PingDone
    /\ ExitedZero
    /\ Len(proc.output) = 2
    /\ ~PingRecognised(os_name, proc.output[1])
    /\ PingRecognised(os_name, proc.output[2])
    /\ "sent" \in DOMAIN result
    /\ result.sent = 1
    /\ result.received = 1

\* the captured text was parsed to the end and ping returned its statistics
PingParsed(osname) ==
    /\ PingDone
    /\ ExitedZero
    /\ os_name = osname
    /\ "sent" \in DOMAIN result

\* the number a line carries right after its `time=` marker, in tenths
TimeAfterMarker(line) ==
    IF line[Find(line, "time=", 1) + 1].k = "int"
    THEN 10 * line[Find(line, "time=", 1) + 1].v
    ELSE line[Find(line, "time=", 1) + 1].v

WinSentLines(out) == SelectSeq(out, LAMBDA l : Has(l, "bytes=") /\ Has(l, "time="))

WinReceivedLines(out) == SelectSeq(WinSentLines(out), LAMBDA l : ~Has(l, "timeout"))

\* C11: in the Windows dialect the statistics ping returns have sent = the
\* number of output lines containing both `bytes=` and `time=`, received =
\* the number of those lines without `timeout`, and times = the integer
\* between `time=` and `ms` of each received line.
C11_WindowsCounts ==
    PingParsed("nt") =>
        /\ result.sent = Len(WinSentLines(proc.output))
        /\ result.received = Len(WinReceivedLines(proc.output))
        /\ result.times = [i \in 1..Len(WinReceivedLines(proc.output)) |->
                              TimeAfterMarker(WinReceivedLines(proc.output)[i])]

\* a reply, a line with both markers and the word timeout, and a line with
\* `bytes=` and no `time=`
C11_Witness ==
    /\ PingParsed("nt")
    /\ Len(proc.output) = 3
    /\ result.sent = 2
    /\ result.received = 1
    /\ \E i \in 1..3 : Has(proc.output[i], "bytes=") /\ ~Has(proc.output[i], "time=")

\* the lines of scenario 3: `bytes=32 time=10ms`, and `bytes=32` with the
\* word timeout
IsWinReply10(line) == line = WinReply10

IsWinTimeout(line) == Has(line, "bytes=") /\ Has(line, "timeout")

\* C12: in the Windows dialect a line carrying `bytes=32` and the word
\* timeout counts toward sent and not toward received: n lines `bytes=32
\* time=10ms` and k such lines give sent = n + k, received = n, lost = k and
\* loss_percent = k / (n + k) * 100.
C12_Claim ==
    (PingDone /\ ExitedZero /\ os_name = "nt"
        /\ \A i \in 1..Len(proc.output) :
               IsWinReply10(proc.output[i]) \/ IsWinTimeout(proc.output[i])) =>
        /\ HasKeys(result, {"sent", "received", "lost", "loss_percent"})
        /\ result.sent = Len(proc.output)
        /\ result.received = Len(SelectSeq(proc.output, IsWinReply10))
        /\ result.lost = Len(SelectSeq(proc.output, IsWinTimeout))
        /\ result.sent > 0 =>
               result.loss_percent.num * result.sent = result.lost * 100 * result.loss_percent.den

PosixSentLines(out) == SelectSeq(out, LAMBDA l : Has(l, "bytes from"))

PosixReceivedLines(out) == SelectSeq(PosixSentLines(out), LAMBDA l : Has(l, "time="))

\* C13: in the POSIX dialect the statistics ping returns have sent = the
\* number of output lines containing `bytes from`, received = the number of
\* those lines that also contain `time=`, and times = the float between
\* `time=` and the next space of each received line, in the order of the
\* lines.
C13_PosixCounts ==
    PingParsed("posix") =>
        /\ result.sent = Len(PosixSentLines(proc.output))
        /\ result.received = Len(PosixReceivedLines(proc.output))
        /\ result.times = [i \in 1..Len(PosixReceivedLines(proc.output)) |->
                              TimeAfterMarker(PosixReceivedLines(proc.output)[i])]

\* two replies with different times and a reply line without a time
C13_Witness ==
    /\ PingParsed("posix")
    /\ result.sent = 3
    /\ result.received = 2
    /\ result.times[1] # result.times[2]


\* C14: in every result ping builds from parsed output, len(times) =
\* received, success is true exactly when received > 0, and when received
\* > 0 min_time and max_time are the least and the greatest of times and
\* avg_time, their mean, lies between them: min_time <= avg_time <= max_time.
C14_Claim ==
    (PingDone /\ ExitedZero /\ "sent" \in DOMAIN result) =>
        /\ Len(result.times) = result.received
        /\ result.success = (result.received > 0)
        /\ result.received > 0 =>
               /\ \A i \in 1..Len(result.times) : result.min_time <= result.times[i]
               /\ \A i \in 1..Len(result.times) : result.max_time >= result.times[i]
               /\ \E i \in 1..Len(result.times) : result.min_time = result.times[i]
               /\ \E i \in 1..Len(result.times) : result.max_time = result.times[i]
               /\ FloatLeq(TimeValue(result.min_time), result.avg_time)
               /\ FloatLeq(result.avg_time, TimeValue(result.max_time))

\* C15: when the captured POSIX ping output holds no matching reply line,
\* ping returns sent = 0, received = 0, lost = 0, loss_percent = 0 and
\* success = false: a zero-sent result, not a 100%-loss result.
C15_NoReplyLineIsZeroSent ==
    (PingDone /\ ExitedZero /\ os_name = "posix" /\ PosixSentLines(proc.output) = <<>>) =>
        /\ HasKeys(result, {"sent", "received", "lost", "loss_percent", "success"})
        /\ result.sent = 0
        /\ result.received = 0
        /\ result.lost = 0
        /\ IsZero(result.loss_percent)
        /\ result.success = FALSE
        /\ "error" \notin DOMAIN result

\* a captured text of three lines, none of them a reply line, one of them
\* a reply line of the other dialect
C15_Witness ==
    /\ PingDone
    /\ ExitedZero
    /\ os_name = "posix"
    /\ Len(proc.output) = 3
    /\ PosixSentLines(proc.output) = <<>>
    /\ \E i \in 1..3 : Has(proc.output[i], "time=")

\* C16: the hop sequence traceroute returns is in strictly increasing
\* hop-index order, for every captured output text in either dialect.
C16_Claim ==
    TraceDone =>
        \A i \in 1..Len(hops), j \in 1..Len(hops) :
            (i < j /\ "hop" \in DOMAIN hops[i] /\ "hop" \in DOMAIN hops[j]) =>
                hops[i].hop < hops[j].hop

\* the values of the entries of times that are not None
PresentTimes(times) ==
    [i \in 1..Len(SelectSeq(times, LAMBDA t : t # None)) |->
        SelectSeq(times, LAMBDA t : t # None)[i][1]]

\* C17: for every hop traceroute emits, in either dialect, avg_time is the
\* mean of the entries of its times that are not None, and is None exactly
\* when all three entries are None.
C17_AvgIsMeanOfPresent ==
    TraceDone =>
        \A i \in 1..Len(hops) :
            "hop" \in DOMAIN hops[i] =>
                /\ (hops[i].avg_time = None) = (hops[i].times = <<None, None, None>>)
                /\ hops[i].avg_time # None =>
                       hops[i].avg_time = Some(FloatMean(PresentTimes(hops[i].times)))

\* a POSIX hop with two samples and a padded third, and a Windows hop with
\* two wildcards ahead of its one sample
C17_Witness ==
    /\ TraceDone
    /\ \E i \in 1..Len(hops) :
           /\ "hop" \in DOMAIN hops[i]
           /\ hops[i].avg_time # None
           /\ \/ os_name = "posix" /\ Len(PresentTimes(hops[i].times)) = 2
              \/ os_name = "nt" /\ hops[i].times[1] = None /\ hops[i].times[3] # None

\* the hop line of the pool whose sample float() rejects
RaisingHopLine(osname) == IF osname = "nt" THEN WinHopBad ELSE PosixHopBad

TraceFailed ==
    /\ TraceDone
    /\ \/ proc.status \in {"none", "launch_failed"}
       \/ ExitedNonZero
       \/ ExitedZero /\ \E i \in 1..Len(proc.output) : proc.output[i] = RaisingHopLine(os_name)

\* C18: when the traceroute command cannot be invoked, exits with a non-zero
\* status, or the parsing of a line raises, traceroute returns exactly one
\* element, with an error marker and success = false and no hop index; no
\* hop parsed before the failure is in the result.
C18_FailureIsOneSentinel ==
    TraceFailed =>
        /\ Len(hops) = 1
        /\ DOMAIN hops[1] = {"error", "success"}
        /\ hops[1].error # <<>>
        /\ hops[1].success = FALSE

\* a hop line that parses, then a hop line whose sample float() rejects
C18_Witness ==
    /\ TraceFailed
    /\ ExitedZero
    /\ Len(proc.output) >= 2
    /\ TraceRecognised(os_name, proc.output[1])
    /\ proc.output[1] # RaisingHopLine(os_name)
    /\ proc.output[2] = RaisingHopLine(os_name)

\* the captured text was parsed to the end and traceroute returned its hops
TraceParsed(osname) ==
    /\ TraceDone
    /\ ExitedZero
    /\ os_name = osname
    /\ \A i \in 1..Len(proc.output) : proc.output[i] # RaisingHopLine(osname)

\* the lines of the captured text that are hop lines of the POSIX dialect
PosixHopLines(out) ==
    SelectSeq(out, LAMBDA l : l \in {PosixHop3, PosixHopGap, PosixHopIp2, PosixHopStars})

\* C19: in the POSIX dialect a line `<index> <hostname> (<ip>) <t1> ms [<t2>
\* ms] [<t3> ms]` yields a hop with that index, the host `hostname (ip)`
\* (the ip alone when the two are equal) and the parsed times padded with
\* None to 3 entries; a line `<index> * * *` yields a hop with host `* * *`,
\* times [None, None, None] and avg_time None.
C19_PosixHopLineYieldsHop ==
    TraceParsed("posix") =>
        /\ Len(hops) = Len(PosixHopLines(proc.output))
        /\ \A j \in 1..Len(PosixHopLines(proc.output)) :
               /\ PosixHopLines(proc.output)[j] = PosixHop3 =>
                      /\ hops[j].hop = 1
                      /\ hops[j].host = <<W("gw"), SP, LP, HostLex, RP>>
                      /\ hops[j].times = <<Some(11), Some(12), Some(13)>>
               /\ PosixHopLines(proc.output)[j] = PosixHopIp2 =>
                      /\ hops[j].hop = 4
                      /\ hops[j].host = <<HostLex>>
                      /\ hops[j].times = <<Some(20), Some(30), None>>
               /\ PosixHopLines(proc.output)[j] = PosixHopStars =>
                      hops[j] = [hop |-> 5, host |-> <<STAR, SP, STAR, SP, STAR>>,
                                 times |-> <<None, None, None>>, avg_time |-> None]

\* a text with the hop whose hostname is its address and the unreachable hop
C19_Witness ==
    /\ TraceParsed("posix")
    /\ \E i \in 1..Len(proc.output) : proc.output[i] = PosixHopIp2
    /\ \E i \in 1..Len(proc.output) : proc.output[i] = PosixHopStars
    /\ Len(hops) >= 2

\* the lines of the captured text that are hop lines of the Windows dialect
WinHopLines(out) == SelectSeq(out, LAMBDA l : l \in {WinHop, WinHopStars})

\* C20: in the Windows dialect a line `<index> <t1> ms <t2> ms <t3> ms
\* <host>` yields one hop whose times has None exactly where <ti> is `*` and
\* the number elsewhere, and whose host is `* * *` when the host field is
\* the request-timed-out phrase.
C20_WindowsHopLineYieldsHop ==
    TraceParsed("nt") =>
        /\ Len(hops) = Len(WinHopLines(proc.output))
        /\ \A j \in 1..Len(WinHopLines(proc.output)) :
               /\ WinHopLines(proc.output)[j] = WinHop =>
                      /\ hops[j].hop = 1
                      /\ hops[j].host = <<HostLex>>
                      /\ hops[j].times = <<Some(10), Some(20), Some(40)>>
               /\ WinHopLines(proc.output)[j] = WinHopStars =>
                      /\ hops[j].hop = 2
                      /\ hops[j].host = <<STAR, SP, STAR, SP, STAR>>
                      /\ hops[j].times = <<None, None, Some(70)>>

\* a text with a hop of three samples and a timed-out hop
C20_Witness ==
    /\ TraceParsed("nt")
    /\ \E i \in 1..Len(proc.output) : proc.output[i] = WinHop
    /\ \E i \in 1..Len(proc.output) : proc.output[i] = WinHopStars
    /\ Len(hops) = 2

\* the dialect a command list belongs to, read off its count / max-hop flag
CmdIsWindows == cmd[2] \in {W("-n"), W("-h")}

\* C21: ping and traceroute build the command of the platform family whose
\* dialect then parses the output: on Windows the value of the timeout flag
\* is timeout * 1000, on POSIX it is timeout, and the count / max-hop flag
\* carries the requested count / max_hops.
C21_CommandMatchesDialect ==
    (op \in {"ping", "traceroute"} /\ cmd # <<>>) =>
        /\ Len(cmd) = 6
        /\ cmd[1] = W(IF op = "ping" THEN "ping"
                      ELSE IF os_name = "nt" THEN "tracert" ELSE "traceroute")
        /\ cmd[2] = W(IF op = "ping" THEN (IF os_name = "nt" THEN "-n" ELSE "-c")
                      ELSE (IF os_name = "nt" THEN "-h" ELSE "-m"))
        /\ cmd[3] = I(req.count)
        /\ cmd[4] = W(IF op = "ping" /\ os_name # "nt" THEN "-W" ELSE "-w")
        /\ cmd[5] = I(IF os_name = "nt" THEN req.timeout * 1000 ELSE req.timeout)
        /\ cmd[6] = W(req.host)
        /\ (PingDone /\ ExitedZero /\ "sent" \in DOMAIN result) =>
               result.sent = Len(IF CmdIsWindows THEN WinSentLines(proc.output)
                                                 ELSE PosixSentLines(proc.output))
        /\ (TraceDone /\ ExitedZero /\ ~TraceFailed) =>
               Len(hops) = Len(IF CmdIsWindows THEN WinHopLines(proc.output)
                                                ELSE PosixHopLines(proc.output))

\* a Windows ping with timeout 2 whose output held a reply of each dialect:
\* the flag reads 2000 and only the Windows reply was counted
C21_Witness ==
    /\ PingDone
    /\ ExitedZero
    /\ req.timeout = 2
    /\ cmd[5] = I(2000)
    /\ os_name = "nt"
    /\ Len(proc.output) = 2
    /\ proc.output[1] = WinReply10
    /\ proc.output[2] = PosixReply45
    /\ result.sent = 1

\* the reply line of the dialect whose time token does not convert
BadTimeLine(osname) == IF osname = "nt" THEN WinBadTime ELSE PosixBadTime

\* the line of the dialect, for the operation that ran, whose parsing raises
RaisingLine == IF op = "ping" THEN BadTimeLine(os_name) ELSE RaisingHopLine(os_name)

\* the call took a failure path: the platform test raised, the launch
\* failed, the child exited with a non-zero status, or a line's parsing raised
FailurePath ==
    \/ proc.status \in {"none", "launch_failed"}
    \/ ExitedNonZero
    \/ ExitedZero /\ \E i \in 1..Len(proc.output) : proc.output[i] = RaisingLine

\* the value returned is the degraded one
Degraded ==
    IF op = "ping" THEN "error" \in DOMAIN result /\ result.success = FALSE
    ELSE Len(hops) = 1 /\ "error" \in DOMAIN hops[1]

\* C23: on every failure path of ping and traceroute (launch failure,
\* non-zero exit, exception while parsing) the handler has called log_error
\* by the time the degraded result is returned, once and with its own
\* message, and a call that returns a parsed result has made no log call.
C23_LogBeforeDegradedResult ==
    (pc = "done" /\ op \in {"ping", "traceroute"}) =>
        /\ FailurePath =>
               /\ Degraded
               /\ Len(log) = 1
               /\ ExitedNonZero =>
                      log[1] = (IF op = "ping" THEN "Ping failed" ELSE "Traceroute failed")
               /\ ~ExitedNonZero =>
                      log[1] = (IF op = "ping" THEN "Error pinging"
                                ELSE "Error performing traceroute")
        /\ ~FailurePath => ~Degraded /\ log = <<>>

\* a traceroute that parsed one hop and then raised on the next line
C23_Witness ==
    /\ TraceDone
    /\ ExitedZero
    /\ Len(proc.output) = 2
    /\ TraceRecognised(os_name, proc.output[1])
    /\ proc.output[2] = RaisingHopLine(os_name)
    /\ Len(hops) = 1
    /\ log = <<"Error performing traceroute">>

\* the reply lines of the dialect that the grammar accepts as they stand
WellFormedLines(osname) ==
    IF osname = "nt" THEN {WinReply10, WinReply30} ELSE {PosixReply123, PosixReply45}

\* the keys of the statistics record built at lines 332-343
FullRecordKeys ==
    {"host", "sent", "received", "lost", "loss_percent", "min_time", "max_time",
     "avg_time", "times", "success"}

\* C25: a ping call whose command launches, exits with status 0 and prints
\* only well-formed reply lines returns the full statistics record and no
\* error field; the platform test on os.name does not itself end the call
\* on the failure path, so a call that has returned did launch its command.
C25_Claim ==
    PingDone =>
        /\ proc.status # "none"
        /\ (ExitedZero /\ \A i \in 1..Len(proc.output) :
                              proc.output[i] \in WellFormedLines(os_name)) =>
               DOMAIN result = FullRecordKeys

\* C26: if a recognised ping reply line carries a time token that does not
\* convert (Windows: no integer before `ms`; POSIX: no float before the next
\* space), the call returns the error-only record {host, error, success =
\* false}: the sent, received and times of every other line are discarded.
C26_BadTimeTokenDiscardsAll ==
    (PingDone /\ ExitedZero
        /\ \E i \in 1..Len(proc.output) : proc.output[i] = BadTimeLine(os_name)) =>
        /\ DOMAIN result = {"host", "error", "success"}
        /\ result.host = req.host
        /\ result.error # <<>>
        /\ result.success = FALSE

\* a well-formed reply, the reply with the bad token, a well-formed reply
C26_Witness ==
    /\ PingDone
    /\ ExitedZero
    /\ Len(proc.output) = 3
    /\ proc.output[1] \in WellFormedLines(os_name)
    /\ proc.output[2] = BadTimeLine(os_name)
    /\ proc.output[3] \in WellFormedLines(os_name)
    /\ "sent" \notin DOMAIN result

\* C27: in the POSIX dialect the absent entries of a hop's times are always
\* trailing: no hop has a present sample after a None, so a line whose
\* second probe is `*` and whose third probe has a time yields times with
\* only the first sample present.
C27_AbsentTimesAreTrailing ==
    TraceParsed("posix") =>
        /\ \A i \in 1..Len(hops) : \A j \in 1..3 : \A k \in 1..3 :
               (j < k /\ hops[i].times[j] = None) => hops[i].times[k] = None
        /\ Len(hops) = Len(PosixHopLines(proc.output))
        /\ \A i \in 1..Len(PosixHopLines(proc.output)) :
               PosixHopLines(proc.output)[i] = PosixHopGap =>
                   /\ hops[i].times[1] # None
                   /\ hops[i].times[2] = None
                   /\ hops[i].times[3] = None

\* a full hop, then the hop `2.0 ms * 3.0 ms`, of which only 2.0 is kept
C27_Witness ==
    /\ TraceDone
    /\ ExitedZero
    /\ os_name = "posix"
    /\ Len(proc.output) = 2
    /\ proc.output[1] = PosixHop3
    /\ proc.output[2] = PosixHopGap
    /\ Len(hops) = 2
    /\ hops[2].times[1] # None
    /\ hops[2].times[2] = None
    /\ hops[2].times[3] = None

FileDone == pc = "done" /\ op \in FileMethods

\* C29: whenever move_file or copy_file returns False, the destination file
\* that existed before the call is still present with its previous content,
\* move_file(src, dst, overwrite=True) whose move fails after the existence
\* check included.
C29_Claim ==
    (FileDone /\ result.value = "False" /\ fs.before.dst # Absent) =>
        fs.after.dst = fs.before.dst

TerminateDone == pc = "done" /\ op \in TerminateMethods

\* C30: Process.terminate sends the terminate request first, waits up to
\* timeout, and calls kill only when that wait times out; if it returns True
\* the process exited within the wait or the kill was delivered, and it
\* returns False whenever the process is not stopped because of
\* NoSuchProcess or AccessDenied, as ProcessInfo.terminate does.
C30_Claim ==
    TerminateDone =>
        /\ ps.calls \in {<<"terminate">>, <<"terminate", "wait">>,
                         <<"terminate", "wait", "kill">>}
        /\ Len(ps.calls) = 3 <=> ps.wait = "TimeoutExpired"
        /\ result.value = "True" => ps.wait = "exited" \/ ps.kill = "ok"
        /\ (ps.terminate \in Denials \/ ps.kill \in Denials) => result.value = "False"

\* the value a call of ping or traceroute returned, of either kind
Returned(c) == IF c.op = "ping" THEN c.result ELSE c.hops

\* the call of the context that runs, as a record like `others`
Running ==
    [pc |-> pc, op |-> op, req |-> req, cmd |-> cmd, proc |-> proc,
     result |-> result, hops |-> hops, log |-> log]

\* what a call returns when it is the only one: the value its request and
\* what became of its command determine
Alone(c) ==
    IF c.proc.status = "exited" /\ c.proc.rc = 0
    THEN (IF c.op = "ping" THEN PingParse(os_name, c.req.host, c.proc.output).ret
                           ELSE TraceParse(os_name, c.proc.output).ret)
    ELSE IF c.proc.status = "exited"
    THEN (IF c.op = "ping" THEN PingExcept(c.req.host, CalledProcessError(c.cmd, c.proc.rc)).ret
                           ELSE TraceExcept(CalledProcessError(c.cmd, c.proc.rc)).ret)
    ELSE IF c.proc.status = "launch_failed"
    THEN (IF c.op = "ping" THEN PingExcept(c.req.host, LaunchError(c.cmd)).ret
                           ELSE TraceExcept(LaunchError(c.cmd)).ret)
    ELSE (IF c.op = "ping" THEN PingExcept(c.req.host, NameErrorOs).ret
                           ELSE TraceExcept(NameErrorOs).ret)

InLoop(m) == m.pc \in {"test", "sample", "callback", "sleep", "check"}

\* C24: stop_monitoring stops an active monitor_cpu or monitor_memory loop:
\* once the flag is set while the loop runs (by a callback or by another
\* thread), the list grows by at most the sample of the iteration in
\* progress, no further sample is begun, and the call returns the samples
\* collected so far.
C24_StopEndsTheLoop ==
    [][(mon.stop /\ InLoop(mon)) =>
          /\ \/ mon'.results = mon.results
             \/ mon.pc = "sample" /\ mon'.results = mon.results + 1
          /\ mon.pc # "sample" => mon'.pc # "sample"
          /\ InLoop(mon') \/ (mon'.pc = "done" /\ mon'.ret = Some(mon'.results))]_vars

\* a loop stopped by another thread after its first sample: the call began
\* with the flag clear, its callback does not stop, and it returned one sample
C24_Witness ==
    /\ mon.pc = "done"
    /\ mon.stop
    /\ ~mon.entered_stopped
    /\ mon.callback = "plain"
    /\ mon.results = 1
    /\ mon.called = 1
    /\ mon.ret = Some(1)
    /\ mon.log = <<>>

\* C28: the stop flag of a SystemMonitor is never reset: after
\* stop_monitoring has been called once, every later call of monitor_cpu or
\* monitor_memory on the object returns an empty list without taking a
\* sample or invoking the callback.
C28_StopFlagIsNeverReset ==
    [][/\ mon.stop => mon'.stop
       /\ (mon'.entered_stopped /\ mon'.pc # "idle") =>
              /\ mon'.pc \in {"test", "done"}
              /\ mon'.results = 0
              /\ mon'.called = 0
              /\ mon'.pc = "done" => mon'.ret = Some(0) /\ mon'.log = <<>>]_vars

\* a call with a callback, begun after the flag was set, that returned []
C28_Witness ==
    /\ mon.pc = "done"
    /\ mon.entered_stopped
    /\ mon.callback = "plain"
    /\ mon.method = "memory"
    /\ mon.ret = Some(0)
    /\ mon.called = 0

====
